---- MODULE Spec2Model ----
(***************************************************************************)
(* Backend sidecar supervisor of src-tauri/src/main.rs: the setup thread   *)
(* (launch, startup gate, watchdog start), the backend-watchdog thread,    *)
(* the Exit handler (stop flag, stop_backend_sidecar) and the operating    *)
(* system's view of the spawned children.                                  *)
(*                                                                         *)
(* A child handle is the index of the child in procs; 0 is None.           *)
(* No code path panics while holding the process mutex, so lock() is       *)
(* always Ok and try_state() always finds the managed SidecarState.        *)
(***************************************************************************)
EXTENDS Naturals, Sequences, FiniteSets

VARIABLES
    process,               \* SidecarState.process: the slot's child, 0 = None
    watchdog_stop,         \* SidecarState.watchdog_stop
    restart_count,         \* SidecarState.restart_count
    lock,                  \* holder of the process mutex: "free", "wd", "main"
    procs,                 \* OS state of every child spawned so far
    kills,                 \* per child: number of kill() calls made on it
    mpc,                   \* position of the setup / run / Exit thread
    mChild,                \* main thread's local `child` (setup launch or taken in stop)
    mAttempt,              \* `attempt` of the setup thread's wait_for_backend_ready
    wpc,                   \* position of the watchdog thread
    consecutive_failures,  \* watchdog local
    rcLocal,               \* watchdog local `restart_count` (line 324)
    wChild,                \* watchdog local `child` (taken at 335, launched at 351)
    wAttempt,              \* `attempt` of the watchdog's wait_for_backend_ready
    sleepI,                \* iterations done of the 0..10 sleep loop
    events,                \* backend-health events emitted in the current tick
    tickLaunches,          \* launch_backend_sidecar calls of the current tick
    cfBefore,              \* consecutive_failures when this tick's probe was made
    healthy,               \* result of this tick's is_backend_healthy() (line 308)
    firstTickDone,         \* the watchdog finished a whole loop iteration
    stopEarly,             \* the stop flag was stored before firstTickDone
    externalAtStart,       \* the setup launch found the address reachable
    shutdownRuns,          \* completed runs of the Exit handler's body
    hIn,                   \* function harness: the inputs of the call
    hOut,                  \* function harness: the call's result
    wdSpawned,             \* children spawned by the watchdog's launches (line 351)
    launcherCalls,         \* the watchdog's launch_backend_sidecar calls, kept in SpecTally
    restartedEvents,       \* "restarted" events emitted so far, kept in SpecEvents
    tally                  \* what is being counted: "none", "calls" or "events"

vars == <<process, watchdog_stop, restart_count, lock, procs, kills, mpc, mChild,
          mAttempt, wpc, consecutive_failures, rcLocal, wChild, wAttempt, sleepI,
          events, tickLaunches, cfBefore, healthy, firstTickDone, stopEarly, externalAtStart,
          shutdownRuns, hIn, hOut, wdSpawned, launcherCalls, restartedEvents, tally>>

sharedVars == <<process, watchdog_stop, restart_count, lock, procs, kills>>
mainVars   == <<mpc, mChild, mAttempt, stopEarly, externalAtStart>>
harnessVars == <<hIn, hOut>>
tallyVars   == <<wdSpawned, launcherCalls>>
wdVars     == <<wpc, consecutive_failures, rcLocal, wChild, wAttempt, sleepI,
                events, tickLaunches, cfBefore, healthy, firstTickDone>>

\* ---------------------------------------------------------------- bounds
\* consecutive_failures is a u32 that only ever grows while probes fail;
\* failed probes are explored up to this value.
MaxFailures == 4
\* how many times the Exit handler's body is run
MaxShutdownRuns == 2
\* largest max_attempts given to wait_for_backend_ready in SpecGate
MaxGateRun == 4
\* the watchdog's launcher calls are counted up to this value in SpecTally
MaxLauncherCalls == 6

\* ------------------------------------------------------ program constants
max_failures_before_restart == 3
max_auto_restarts_per_session == 5
GateMaxAttempts == 60
SleepSteps == 10

\* --------------------------------------------------------------- helpers
Alive == {c \in 1..Len(procs) : procs[c] = "running"}
Unreaped == {c \in 1..Len(procs) : procs[c] # "reaped"}

\* ------------------------------------------------------------- Launcher
LaunchEnv == [tcp : BOOLEAN, bin : BOOLEAN, binOk : BOOLEAN,
              script : BOOLEAN, py3Ok : BOOLEAN, pyOk : BOOLEAN]

NoChild(report, tried) == [child |-> FALSE, via |-> "none", report |-> report, tried |-> tried]
Spawned(via, tried) == [child |-> TRUE, via |-> via, report |-> via, tried |-> tried]

\* is_backend_tcp_reachable() answered env.tcp: skip the launch
SkipLaunch_Never(env) == FALSE
SkipLaunch(env) == env.tcp

\* launch_backend_sidecar with the interpreters tried in the other order
launch_backend_sidecar_PyFirst(env) ==
    IF SkipLaunch(env) THEN NoChild("external", <<>>)
    ELSE IF env.bin /\ env.binOk THEN Spawned("binary", <<"binary">>)
    ELSE LET b == IF env.bin THEN <<"binary">> ELSE <<>> IN
         IF ~env.script THEN NoChild("script_not_found", b)
         ELSE IF env.pyOk THEN Spawned("python", b \o <<"python">>)
         ELSE IF env.py3Ok THEN Spawned("python3", b \o <<"python", "python3">>)
         ELSE NoChild("spawn_failed", b \o <<"python", "python3">>)

\* launch_backend_sidecar: what it spawns and reports in environment env
launch_backend_sidecar(env) ==
    IF SkipLaunch(env) THEN NoChild("external", <<>>)
    ELSE IF env.bin /\ env.binOk THEN Spawned("binary", <<"binary">>)
    ELSE LET b == IF env.bin THEN <<"binary">> ELSE <<>> IN
         IF ~env.script THEN NoChild("script_not_found", b)
         ELSE IF env.py3Ok THEN Spawned("python3", b \o <<"python3">>)
         ELSE IF env.pyOk THEN Spawned("python", b \o <<"python3", "python">>)
         ELSE NoChild("spawn_failed", b \o <<"python3", "python">>)

\* Command::spawn succeeded: a new running child, its handle is its index
SpawnProcs == Append(procs, "running")
SpawnKills == Append(kills, 0)
NewHandle == Len(procs) + 1

\* ---------------------------------------------------------- child handle
\* Option::take on the slot: what is left in the slot
TakeLeaves_Peek(p) == p
TakeLeaves(p) == 0

\* the watchdog's MutexGuard goes out of scope (main.rs 347): the mutex after it
DropGuard_Held(l) == l
DropGuard(l) == "free"

\* Child::try_wait returned Ok(Some(_)): the child has exited (and is now reaped);
\* st is the child's state as the call saw it, "error" for Err(_)
AlreadyExited_Always(st) == TRUE
AlreadyExited(st) == st = "exited"

\* Child::kill: the call is counted; a running child is terminated
KillProcs(c) == [procs EXCEPT ![c] = IF @ = "running" THEN "exited" ELSE @]
KillCount(c) == [kills EXCEPT ![c] = @ + 1]

\* Child::wait / a successful try_wait: the exited child is reaped
ReapProcs(c) == [procs EXCEPT ![c] = "reaped"]

\* ------------------------------------------------------ watchdog helpers
UnderCap_Off(rc) == rc <= max_auto_restarts_per_session
UnderCap_Always(rc) == TRUE
UnderCap(rc) == rc < max_auto_restarts_per_session

ReachedThreshold_Late(cf) == cf > max_failures_before_restart
ReachedThreshold(cf) == cf >= max_failures_before_restart

FetchAdd_Two(rc) == rc + 2
FetchAdd(rc) == rc + 1

\* stop_flag.load(): leave the loop
ShouldStop_Never(flag) == FALSE
ShouldStop(flag) == flag

\* watchdog_stop.store(true): the flag's value after the store
StoreStop_Keep(flag) == flag
StoreStop_Clear(flag) == FALSE
StoreStop(flag) == TRUE

\* main.rs 309: the healthy probe ends a failure run and "healthy" is emitted
EmitsRecovered_Always(cf) == TRUE
EmitsRecovered(cf) == cf > 0

ResetFailures_Keep(cf) == cf
ResetFailures(cf) == 0

\* consecutive_failures right after this tick's probe (0 after a healthy one)
tickFail == IF healthy THEN 0 ELSE cfBefore + 1

\* one more launch_backend_sidecar call of the watchdog; the count stops at
\* MaxLauncherCalls and is kept only where calls are counted
CountCall(n) == IF tally = "calls" /\ n < MaxLauncherCalls THEN n + 1 ELSE n

\* one more "restarted" event, kept only where events are counted
CountEvent(n) == IF tally = "events" THEN n + 1 ELSE n

\* function harness: no call is being made
NoCall == [called |-> FALSE]

\* wait_for_backend_ready: the probe after the loop, whose answer is returned
FinalProbe_Skip(answers, max_attempts) == FALSE
FinalProbe(answers, max_attempts) == answers[max_attempts + 1]

\* wait_for_backend_ready: iteration i of `for _ in 0..max_attempts`; answers[k]
\* is what is_backend_healthy() returns on the k-th call
RECURSIVE GateLoop(_, _, _)
GateLoop(i, max_attempts, answers) ==
    IF i >= max_attempts
    THEN [result |-> FinalProbe(answers, max_attempts), probes |-> max_attempts + 1]
    ELSE IF answers[i + 1]
         THEN [result |-> TRUE, probes |-> i + 1]
         ELSE GateLoop(i + 1, max_attempts, answers)

wait_for_backend_ready(max_attempts, answers) == GateLoop(0, max_attempts, answers)

\* ------------------------------------------------------------------ Init
Started ==
    /\ process = 0
    /\ watchdog_stop = FALSE
    /\ restart_count = 0
    /\ lock = "free"
    /\ procs = <<>>
    /\ kills = <<>>
    /\ mpc = "setup_launch"
    /\ mChild = 0
    /\ mAttempt = 0
    /\ wpc = "idle"
    /\ consecutive_failures = 0
    /\ rcLocal = 0
    /\ wChild = 0
    /\ wAttempt = 0
    /\ sleepI = 0
    /\ events = <<>>
    /\ tickLaunches = 0
    /\ cfBefore = 0
    /\ healthy = FALSE
    /\ firstTickDone = FALSE
    /\ stopEarly = FALSE
    /\ externalAtStart = FALSE
    /\ shutdownRuns = 0
    /\ hIn = NoCall
    /\ hOut = NoCall
    /\ wdSpawned = 0
    /\ launcherCalls = 0
    /\ restartedEvents = 0

Init == Started /\ tally = "none"

\* ---------------------------------------------------------- setup thread
\* main.rs 723: launch_backend_sidecar(&app_handle) in setup
SetupLaunch ==
    /\ mpc = "setup_launch"
    /\ \E env \in LaunchEnv :
         LET r == launch_backend_sidecar(env) IN
         /\ externalAtStart' = env.tcp
         /\ IF r.child
            THEN /\ procs' = SpawnProcs
                 /\ kills' = SpawnKills
                 /\ mChild' = NewHandle
                 /\ mpc' = "setup_store"
            ELSE /\ UNCHANGED <<procs, kills, mChild>>
                 /\ mpc' = "setup_else"
    /\ UNCHANGED <<process, watchdog_stop, restart_count, lock, mAttempt, stopEarly>>
    /\ UNCHANGED wdVars
    /\ UNCHANGED <<shutdownRuns, hIn, hOut>>
    /\ UNCHANGED tallyVars
    /\ UNCHANGED <<restartedEvents, tally>>

\* main.rs 724-727: store the child in the slot under the lock
SetupStore ==
    /\ mpc = "setup_store"
    /\ lock = "free"
    /\ process' = mChild
    /\ mChild' = 0
    /\ mAttempt' = 1
    /\ mpc' = "setup_gate_probe"
    /\ UNCHANGED <<watchdog_stop, restart_count, lock, procs, kills, stopEarly, externalAtStart>>
    /\ UNCHANGED wdVars
    /\ UNCHANGED <<shutdownRuns, hIn, hOut>>
    /\ UNCHANGED tallyVars
    /\ UNCHANGED <<restartedEvents, tally>>

\* main.rs 732 / 272-279: one probe of the startup gate's loop
SetupGateProbe ==
    /\ mpc = "setup_gate_probe"
    /\ \E ok \in BOOLEAN :
         IF ok
         THEN /\ mpc' = "start_watchdog"
              /\ mAttempt' = 0
         ELSE /\ mpc' = "setup_gate_sleep"
              /\ mAttempt' = mAttempt
    /\ UNCHANGED <<mChild, stopEarly, externalAtStart>>
    /\ UNCHANGED sharedVars
    /\ UNCHANGED wdVars
    /\ UNCHANGED <<shutdownRuns, hIn, hOut>>
    /\ UNCHANGED tallyVars
    /\ UNCHANGED <<restartedEvents, tally>>

\* main.rs 278: sleep(interval), then the next attempt or the final probe
SetupGateSleep ==
    /\ mpc = "setup_gate_sleep"
    /\ IF mAttempt < GateMaxAttempts
       THEN /\ mAttempt' = mAttempt + 1
            /\ mpc' = "setup_gate_probe"
       ELSE /\ mAttempt' = 0
            /\ mpc' = "setup_gate_final"
    /\ UNCHANGED <<mChild, stopEarly, externalAtStart>>
    /\ UNCHANGED sharedVars
    /\ UNCHANGED wdVars
    /\ UNCHANGED <<shutdownRuns, hIn, hOut>>
    /\ UNCHANGED tallyVars
    /\ UNCHANGED <<restartedEvents, tally>>

\* main.rs 281: the final probe; setup only logs its result
SetupGateFinal ==
    /\ mpc = "setup_gate_final"
    /\ \E ok \in BOOLEAN : mpc' = "start_watchdog"
    /\ UNCHANGED <<mChild, mAttempt, stopEarly, externalAtStart>>
    /\ UNCHANGED sharedVars
    /\ UNCHANGED wdVars
    /\ UNCHANGED <<shutdownRuns, hIn, hOut>>
    /\ UNCHANGED tallyVars
    /\ UNCHANGED <<restartedEvents, tally>>

\* main.rs 737-741: no child was launched; is_backend_healthy() is only logged
SetupElse ==
    /\ mpc = "setup_else"
    /\ \E ok \in BOOLEAN : mpc' = "start_watchdog"
    /\ UNCHANGED <<mChild, mAttempt, stopEarly, externalAtStart>>
    /\ UNCHANGED sharedVars
    /\ UNCHANGED wdVars
    /\ UNCHANGED <<shutdownRuns, hIn, hOut>>
    /\ UNCHANGED tallyVars
    /\ UNCHANGED <<restartedEvents, tally>>

\* main.rs 744 / 286-300: spawn the watchdog thread, which starts its grace sleep
StartWatchdog ==
    /\ mpc = "start_watchdog"
    /\ mpc' = "run"
    /\ wpc' = "grace"
    /\ UNCHANGED <<mChild, mAttempt, stopEarly, externalAtStart>>
    /\ UNCHANGED sharedVars
    /\ UNCHANGED <<consecutive_failures, rcLocal, wChild, wAttempt, sleepI,
                   events, tickLaunches, cfBefore, healthy, firstTickDone>>
    /\ UNCHANGED <<shutdownRuns, hIn, hOut>>
    /\ UNCHANGED tallyVars
    /\ UNCHANGED <<restartedEvents, tally>>

\* ----------------------------------------------------------- Exit handler
\* main.rs 857-862: RunEvent::Exit, watchdog_stop.store(true)
ExitSetStop ==
    /\ mpc = "run"
    /\ watchdog_stop' = StoreStop(watchdog_stop)
    /\ stopEarly' = ~firstTickDone
    /\ mpc' = "stop_lock"
    /\ UNCHANGED <<process, restart_count, lock, procs, kills, mChild, mAttempt,
                   externalAtStart>>
    /\ UNCHANGED wdVars
    /\ UNCHANGED <<shutdownRuns, hIn, hOut>>
    /\ UNCHANGED tallyVars
    /\ UNCHANGED <<restartedEvents, tally>>

\* main.rs 506-507: stop_backend_sidecar locks the slot and takes the child
StopLockTake ==
    /\ mpc = "stop_lock"
    /\ lock = "free"
    /\ mChild' = process
    /\ process' = TakeLeaves(process)
    /\ IF process = 0
       THEN /\ lock' = "free"
            /\ mpc' = "done"
       ELSE /\ lock' = "main"
            /\ mpc' = "stop_kill"
    /\ UNCHANGED <<watchdog_stop, restart_count, procs, kills, mAttempt, stopEarly,
                   externalAtStart>>
    /\ UNCHANGED wdVars
    /\ shutdownRuns' = IF process = 0 THEN shutdownRuns + 1 ELSE shutdownRuns
    /\ UNCHANGED harnessVars
    /\ UNCHANGED tallyVars
    /\ UNCHANGED <<restartedEvents, tally>>

\* main.rs 508: child.kill()
StopKill ==
    /\ mpc = "stop_kill"
    /\ procs' = KillProcs(mChild)
    /\ kills' = KillCount(mChild)
    /\ mpc' = "stop_wait"
    /\ UNCHANGED <<process, watchdog_stop, restart_count, lock, mChild, mAttempt,
                   stopEarly, externalAtStart>>
    /\ UNCHANGED wdVars
    /\ UNCHANGED <<shutdownRuns, hIn, hOut>>
    /\ UNCHANGED tallyVars
    /\ UNCHANGED <<restartedEvents, tally>>

\* main.rs 509-512: child.wait() returns once the child has exited; the guard drops
StopWait ==
    /\ mpc = "stop_wait"
    /\ procs[mChild] # "running"
    /\ procs' = ReapProcs(mChild)
    /\ mChild' = 0
    /\ lock' = "free"
    /\ mpc' = "done"
    /\ UNCHANGED <<process, watchdog_stop, restart_count, kills, mAttempt, stopEarly,
                   externalAtStart>>
    /\ UNCHANGED wdVars
    /\ shutdownRuns' = shutdownRuns + 1
    /\ UNCHANGED harnessVars
    /\ UNCHANGED tallyVars
    /\ UNCHANGED <<restartedEvents, tally>>

\* -------------------------------------------------------------- watchdog
\* the tick body is over: enter the 10 x 1 s sleep loop (main.rs 380)
EndTick ==
    /\ wpc' = "sleep"
    /\ sleepI' = 0

\* main.rs 300: the 15 s grace sleep, one uninterruptible sleep
Grace ==
    /\ wpc = "grace"
    /\ wpc' = "check_stop"
    /\ UNCHANGED <<consecutive_failures, rcLocal, wChild, wAttempt, sleepI, events,
                   tickLaunches, cfBefore, healthy, firstTickDone>>
    /\ UNCHANGED sharedVars
    /\ UNCHANGED mainVars
    /\ UNCHANGED <<shutdownRuns, hIn, hOut>>
    /\ UNCHANGED tallyVars
    /\ UNCHANGED <<restartedEvents, tally>>

\* main.rs 303-306: the loop's only exit
CheckStop ==
    /\ wpc = "check_stop"
    /\ wpc' = IF ShouldStop(watchdog_stop) THEN "stopped" ELSE "probe"
    /\ events' = <<>>
    /\ tickLaunches' = 0
    /\ cfBefore' = 0
    /\ healthy' = FALSE
    /\ rcLocal' = 0
    /\ UNCHANGED <<consecutive_failures, wChild, wAttempt, sleepI, firstTickDone>>
    /\ UNCHANGED sharedVars
    /\ UNCHANGED mainVars
    /\ UNCHANGED <<shutdownRuns, hIn, hOut>>
    /\ UNCHANGED tallyVars
    /\ UNCHANGED <<restartedEvents, tally>>

\* main.rs 308-313: is_backend_healthy() answered true
ProbeHealthy ==
    /\ wpc = "probe"
    /\ events' = IF EmitsRecovered(consecutive_failures) THEN <<"healthy">> ELSE <<>>
    /\ consecutive_failures' = ResetFailures(consecutive_failures)
    /\ cfBefore' = consecutive_failures
    /\ healthy' = TRUE
    /\ EndTick
    /\ UNCHANGED <<rcLocal, wChild, wAttempt, tickLaunches, firstTickDone>>
    /\ UNCHANGED sharedVars
    /\ UNCHANGED mainVars
    /\ UNCHANGED <<shutdownRuns, hIn, hOut>>
    /\ UNCHANGED tallyVars
    /\ UNCHANGED <<restartedEvents, tally>>

\* main.rs 314-329, 370-375: is_backend_healthy() answered false
ProbeFailed ==
    /\ wpc = "probe"
    /\ consecutive_failures < MaxFailures
    /\ consecutive_failures' = consecutive_failures + 1
    /\ cfBefore' = consecutive_failures
    /\ healthy' = FALSE
    /\ IF ReachedThreshold(consecutive_failures + 1)
       THEN /\ events' = <<"unhealthy">>
            /\ rcLocal' = restart_count
            /\ IF UnderCap(restart_count)
               THEN /\ wpc' = "kill_stale"
                    /\ sleepI' = sleepI
               ELSE EndTick
       ELSE /\ UNCHANGED <<events, rcLocal>>
            /\ EndTick
    /\ UNCHANGED <<wChild, wAttempt, tickLaunches, firstTickDone>>
    /\ UNCHANGED sharedVars
    /\ UNCHANGED mainVars
    /\ UNCHANGED <<shutdownRuns, hIn, hOut>>
    /\ UNCHANGED tallyVars
    /\ UNCHANGED <<restartedEvents, tally>>

\* main.rs 333-335: lock the slot and take the stale child
KillStaleLockTake ==
    /\ wpc = "kill_stale"
    /\ lock = "free"
    /\ wChild' = process
    /\ process' = TakeLeaves(process)
    /\ IF process = 0
       THEN /\ lock' = DropGuard(lock)
            /\ wpc' = "launch"
       ELSE /\ lock' = "wd"
            /\ wpc' = "try_wait"
    /\ UNCHANGED <<watchdog_stop, restart_count, procs, kills>>
    /\ UNCHANGED <<consecutive_failures, rcLocal, wAttempt, sleepI, events,
                   tickLaunches, cfBefore, healthy, firstTickDone>>
    /\ UNCHANGED mainVars
    /\ UNCHANGED <<shutdownRuns, hIn, hOut>>
    /\ UNCHANGED tallyVars
    /\ UNCHANGED <<restartedEvents, tally>>

\* main.rs 337-341: child.try_wait(). Ok(Some(_)) reaps an exited child; Ok(None)
\* (still running) and Err(_) both fall to the `_` arm, which kills and waits
KillStaleTryWait ==
    /\ wpc = "try_wait"
    /\ \E err \in BOOLEAN :
         LET st == IF err THEN "error" ELSE procs[wChild] IN
         /\ procs' = IF st = "exited" THEN ReapProcs(wChild) ELSE procs
         /\ IF AlreadyExited(st)
            THEN /\ wChild' = 0
                 /\ lock' = DropGuard(lock)
                 /\ wpc' = "launch"
            ELSE /\ UNCHANGED <<wChild, lock>>
                 /\ wpc' = "kill"
    /\ UNCHANGED <<process, watchdog_stop, restart_count, kills>>
    /\ UNCHANGED <<consecutive_failures, rcLocal, wAttempt, sleepI, events,
                   tickLaunches, cfBefore, healthy, firstTickDone>>
    /\ UNCHANGED mainVars
    /\ UNCHANGED <<shutdownRuns, hIn, hOut>>
    /\ UNCHANGED tallyVars
    /\ UNCHANGED <<restartedEvents, tally>>

\* main.rs 342: child.kill()
KillStaleKill ==
    /\ wpc = "kill"
    /\ procs' = KillProcs(wChild)
    /\ kills' = KillCount(wChild)
    /\ wpc' = "wait"
    /\ UNCHANGED <<process, watchdog_stop, restart_count, lock>>
    /\ UNCHANGED <<consecutive_failures, rcLocal, wChild, wAttempt, sleepI, events,
                   tickLaunches, cfBefore, healthy, firstTickDone>>
    /\ UNCHANGED mainVars
    /\ UNCHANGED <<shutdownRuns, hIn, hOut>>
    /\ UNCHANGED tallyVars
    /\ UNCHANGED <<restartedEvents, tally>>

\* main.rs 343-347: child.wait() returns once the child has exited; the guard drops
KillStaleWait ==
    /\ wpc = "wait"
    /\ procs[wChild] # "running"
    /\ procs' = ReapProcs(wChild)
    /\ wChild' = 0
    /\ lock' = DropGuard(lock)
    /\ wpc' = "launch"
    /\ UNCHANGED <<process, watchdog_stop, restart_count, kills>>
    /\ UNCHANGED <<consecutive_failures, rcLocal, wAttempt, sleepI, events,
                   tickLaunches, cfBefore, healthy, firstTickDone>>
    /\ UNCHANGED mainVars
    /\ UNCHANGED <<shutdownRuns, hIn, hOut>>
    /\ UNCHANGED tallyVars
    /\ UNCHANGED <<restartedEvents, tally>>

\* main.rs 351, 367-369: launch_backend_sidecar(&app_handle) of a restart
Relaunch ==
    /\ wpc = "launch"
    /\ tickLaunches' = tickLaunches + 1
    /\ \E env \in LaunchEnv :
         LET r == launch_backend_sidecar(env) IN
         IF r.child
         THEN /\ procs' = SpawnProcs
              /\ kills' = SpawnKills
              /\ wChild' = NewHandle
              /\ wdSpawned' = wdSpawned + 1
              /\ wpc' = "store"
              /\ sleepI' = sleepI
         ELSE /\ UNCHANGED <<procs, kills, wChild, wdSpawned>>
              /\ EndTick
    /\ UNCHANGED <<process, watchdog_stop, restart_count, lock>>
    /\ UNCHANGED <<consecutive_failures, rcLocal, wAttempt, events, cfBefore, healthy,
                   firstTickDone>>
    /\ UNCHANGED mainVars
    /\ UNCHANGED <<shutdownRuns, hIn, hOut>>
    /\ launcherCalls' = CountCall(launcherCalls)
    /\ UNCHANGED <<restartedEvents, tally>>

\* main.rs 352-355: store the new child in the slot under the lock
RelaunchStore ==
    /\ wpc = "store"
    /\ lock = "free"
    /\ process' = wChild
    /\ wChild' = 0
    /\ wpc' = "inc"
    /\ UNCHANGED <<watchdog_stop, restart_count, lock, procs, kills>>
    /\ UNCHANGED <<consecutive_failures, rcLocal, wAttempt, sleepI, events,
                   tickLaunches, cfBefore, healthy, firstTickDone>>
    /\ UNCHANGED mainVars
    /\ UNCHANGED <<shutdownRuns, hIn, hOut>>
    /\ UNCHANGED tallyVars
    /\ UNCHANGED <<restartedEvents, tally>>

\* main.rs 356: restart_count.fetch_add(1); then wait_for_backend_ready(60, ..) starts
RelaunchCount ==
    /\ wpc = "inc"
    /\ restart_count' = FetchAdd(restart_count)
    /\ wAttempt' = 1
    /\ wpc' = "gate_probe"
    /\ UNCHANGED <<process, watchdog_stop, lock, procs, kills>>
    /\ UNCHANGED <<consecutive_failures, rcLocal, wChild, sleepI, events,
                   tickLaunches, cfBefore, healthy, firstTickDone>>
    /\ UNCHANGED mainVars
    /\ UNCHANGED <<shutdownRuns, hIn, hOut>>
    /\ UNCHANGED tallyVars
    /\ UNCHANGED <<restartedEvents, tally>>

\* main.rs 364-366: the gate returned false, which is only printed: the events after it
GateFailedEvents_Restarted(ev) == Append(ev, "restarted")
GateFailedEvents(ev) == ev

\* main.rs 360-363: the gate returned true
GateSucceeded ==
    /\ events' = Append(events, "restarted")
    /\ restartedEvents' = CountEvent(restartedEvents)
    /\ consecutive_failures' = 0
    /\ EndTick

\* main.rs 274-277: one probe of the gate's loop
GateProbe ==
    /\ wpc = "gate_probe"
    /\ \E ok \in BOOLEAN :
         IF ok
         THEN /\ GateSucceeded
              /\ wAttempt' = 0
         ELSE /\ wpc' = "gate_sleep"
              /\ UNCHANGED <<events, consecutive_failures, sleepI, wAttempt,
                             restartedEvents>>
    /\ UNCHANGED <<rcLocal, wChild, tickLaunches, cfBefore, healthy, firstTickDone>>
    /\ UNCHANGED sharedVars
    /\ UNCHANGED mainVars
    /\ UNCHANGED <<shutdownRuns, hIn, hOut>>
    /\ UNCHANGED tallyVars
    /\ UNCHANGED tally

\* main.rs 278: sleep(interval), then the next attempt or the final probe
GateSleep ==
    /\ wpc = "gate_sleep"
    /\ IF wAttempt < GateMaxAttempts
       THEN /\ wAttempt' = wAttempt + 1
            /\ wpc' = "gate_probe"
       ELSE /\ wAttempt' = 0
            /\ wpc' = "gate_final"
    /\ UNCHANGED <<consecutive_failures, rcLocal, wChild, sleepI, events,
                   tickLaunches, cfBefore, healthy, firstTickDone>>
    /\ UNCHANGED sharedVars
    /\ UNCHANGED mainVars
    /\ UNCHANGED <<shutdownRuns, hIn, hOut>>
    /\ UNCHANGED tallyVars
    /\ UNCHANGED <<restartedEvents, tally>>

\* main.rs 281, 364-366: the final probe decides the gate
GateFinal ==
    /\ wpc = "gate_final"
    /\ \E ok \in BOOLEAN :
         IF ok
         THEN GateSucceeded
         ELSE /\ EndTick
              /\ events' = GateFailedEvents(events)
              /\ UNCHANGED <<consecutive_failures, restartedEvents>>
    /\ UNCHANGED <<rcLocal, wChild, wAttempt, tickLaunches, cfBefore, healthy, firstTickDone>>
    /\ UNCHANGED sharedVars
    /\ UNCHANGED mainVars
    /\ UNCHANGED <<shutdownRuns, hIn, hOut>>
    /\ UNCHANGED tallyVars
    /\ UNCHANGED tally

\* main.rs 380-385: one iteration of the sleep loop: flag clear, sleep 1 s
SleepStep ==
    /\ wpc = "sleep"
    /\ sleepI < SleepSteps
    /\ ~watchdog_stop
    /\ sleepI' = sleepI + 1
    /\ UNCHANGED <<wpc, consecutive_failures, rcLocal, wChild, wAttempt, events,
                   tickLaunches, cfBefore, healthy, firstTickDone>>
    /\ UNCHANGED sharedVars
    /\ UNCHANGED mainVars
    /\ UNCHANGED <<shutdownRuns, hIn, hOut>>
    /\ UNCHANGED tallyVars
    /\ UNCHANGED <<restartedEvents, tally>>

\* main.rs 380-386: the sleep loop ends (10 iterations, or the flag breaks it)
SleepEnd ==
    /\ wpc = "sleep"
    /\ sleepI = SleepSteps \/ watchdog_stop
    /\ wpc' = "check_stop"
    /\ sleepI' = 0
    /\ firstTickDone' = TRUE
    /\ UNCHANGED <<consecutive_failures, rcLocal, wChild, wAttempt, events,
                   tickLaunches, cfBefore, healthy>>
    /\ UNCHANGED sharedVars
    /\ UNCHANGED mainVars
    /\ UNCHANGED <<shutdownRuns, hIn, hOut>>
    /\ UNCHANGED tallyVars
    /\ UNCHANGED <<restartedEvents, tally>>

\* ----------------------------------------------------------- environment
\* a spawned backend process exits on its own (crash)
ChildExit ==
    /\ \E c \in 1..Len(procs) :
         /\ procs[c] = "running"
         /\ procs' = [procs EXCEPT ![c] = "exited"]
    /\ UNCHANGED <<process, watchdog_stop, restart_count, lock, kills>>
    /\ UNCHANGED mainVars
    /\ UNCHANGED wdVars
    /\ UNCHANGED <<shutdownRuns, hIn, hOut>>
    /\ UNCHANGED tallyVars
    /\ UNCHANGED <<restartedEvents, tally>>

Next ==
    \/ SetupLaunch \/ SetupStore \/ SetupGateProbe \/ SetupGateSleep
    \/ SetupGateFinal \/ SetupElse \/ StartWatchdog
    \/ ExitSetStop \/ StopLockTake \/ StopKill \/ StopWait
    \/ Grace \/ CheckStop \/ ProbeHealthy \/ ProbeFailed
    \/ KillStaleLockTake \/ KillStaleTryWait \/ KillStaleKill \/ KillStaleWait
    \/ Relaunch \/ RelaunchStore \/ RelaunchCount
    \/ GateProbe \/ GateSleep \/ GateFinal
    \/ SleepStep \/ SleepEnd
    \/ ChildExit

Spec == Init /\ [][Next]_vars

\* ------------------------------------------------------ fair scheduling
\* every step of the backend-watchdog thread (main.rs 294-387)
WatchdogNext ==
    \/ Grace \/ CheckStop \/ ProbeHealthy \/ ProbeFailed
    \/ KillStaleLockTake \/ KillStaleTryWait \/ KillStaleKill \/ KillStaleWait
    \/ Relaunch \/ RelaunchStore \/ RelaunchCount
    \/ GateProbe \/ GateSleep \/ GateFinal
    \/ SleepStep \/ SleepEnd

\* every step of stop_backend_sidecar (main.rs 504-514)
ShutdownNext == StopLockTake \/ StopKill \/ StopWait

\* The OS schedules both threads: the watchdog thread keeps running while it
\* has a step to take, and stop_backend_sidecar, once entered, runs to its end
\* (sleeps, probes with timeouts, kill and wait on a killed child all return).
SpecFair == Spec /\ WF_vars(WatchdogNext) /\ WF_vars(ShutdownNext)

\* ------------------------------------------ launcher calls of the watchdog
\* The program with every launch_backend_sidecar call of the watchdog counted.
InitTally == Started /\ tally = "calls"

SpecTally == InitTally /\ [][Next]_vars

\* The program with every "restarted" event counted.
InitEvents == Started /\ tally = "events"

SpecEvents == InitEvents /\ [][Next]_vars

\* ------------------------------------------------------- the health query
\* main.rs 701-712: check_backend_health, invoked from the UI at any time:
\* is_backend_healthy() and one load of restart_count. The probe's answer goes
\* to the caller and touches no state; the count returned is kept in hOut
LoadCount_Next(rc) == rc + 1
LoadCount(rc) == rc

CheckBackendHealth ==
    /\ \E ok \in BOOLEAN :
         hOut' = [called |-> TRUE, restart_count |-> LoadCount(restart_count)]
    /\ UNCHANGED sharedVars
    /\ UNCHANGED mainVars
    /\ UNCHANGED wdVars
    /\ UNCHANGED <<shutdownRuns, hIn>>
    /\ UNCHANGED tallyVars
    /\ UNCHANGED <<restartedEvents, tally>>

NextQuery == Next \/ CheckBackendHealth

SpecQuery == Init /\ [][NextQuery]_vars

\* ------------------------------------------- the Exit handler's body run again
\* The body of the RunEvent::Exit arm entered once more after it returned.
ExitAgain ==
    /\ mpc = "done"
    /\ shutdownRuns < MaxShutdownRuns
    /\ watchdog_stop' = StoreStop(watchdog_stop)
    /\ mpc' = "stop_lock"
    /\ UNCHANGED <<process, restart_count, lock, procs, kills, mChild, mAttempt,
                   stopEarly, externalAtStart>>
    /\ UNCHANGED wdVars
    /\ UNCHANGED <<shutdownRuns, hIn, hOut>>
    /\ UNCHANGED tallyVars
    /\ UNCHANGED <<restartedEvents, tally>>

NextTwice == Next \/ ExitAgain

SpecTwice == Init /\ [][NextTwice]_vars

\* ------------------------------------------------ single calls of a function
\* Every variable of the running program at rest; pc names the function called.
AtRest(pc) ==
    /\ process = 0
    /\ watchdog_stop = FALSE
    /\ restart_count = 0
    /\ lock = "free"
    /\ procs = <<>>
    /\ kills = <<>>
    /\ mpc = pc
    /\ mChild = 0
    /\ mAttempt = 0
    /\ wpc = "idle"
    /\ consecutive_failures = 0
    /\ rcLocal = 0
    /\ wChild = 0
    /\ wAttempt = 0
    /\ sleepI = 0
    /\ events = <<>>
    /\ tickLaunches = 0
    /\ cfBefore = 0
    /\ healthy = FALSE
    /\ firstTickDone = FALSE
    /\ stopEarly = FALSE
    /\ externalAtStart = FALSE
    /\ shutdownRuns = 0
    /\ hOut = NoCall
    /\ wdSpawned = 0
    /\ launcherCalls = 0
    /\ restartedEvents = 0
    /\ tally = "none"

\* wait_for_backend_ready(max_attempts, _) against the probe answers it will get
GateInputs ==
    UNION {[called : {TRUE}, max_attempts : {m}, answers : [1..(m + 1) -> BOOLEAN]] :
           m \in 0..MaxGateRun}

InitGate == AtRest("call_gate") /\ hIn \in GateInputs

CallGate ==
    /\ mpc = "call_gate"
    /\ ~hOut.called
    /\ LET r == wait_for_backend_ready(hIn.max_attempts, hIn.answers) IN
       hOut' = [called |-> TRUE, result |-> r.result, probes |-> r.probes]
    /\ UNCHANGED <<process, watchdog_stop, restart_count, lock, procs, kills,
                   mpc, mChild, mAttempt, stopEarly, externalAtStart,
                   shutdownRuns, hIn>>
    /\ UNCHANGED wdVars
    /\ UNCHANGED tallyVars
    /\ UNCHANGED <<restartedEvents, tally>>

SpecGate == InitGate /\ [][CallGate]_vars

\* launch_backend_sidecar(app) in each environment it can meet
InitLauncher == AtRest("call_launch") /\ hIn \in [called : {TRUE}, env : LaunchEnv]

CallLaunch ==
    /\ mpc = "call_launch"
    /\ ~hOut.called
    /\ LET r == launch_backend_sidecar(hIn.env) IN
       /\ hOut' = [called |-> TRUE, r |-> r]
       /\ IF r.child
          THEN procs' = SpawnProcs /\ kills' = SpawnKills
          ELSE UNCHANGED <<procs, kills>>
    /\ UNCHANGED <<process, watchdog_stop, restart_count, lock,
                   mpc, mChild, mAttempt, stopEarly, externalAtStart,
                   shutdownRuns, hIn>>
    /\ UNCHANGED wdVars
    /\ UNCHANGED tallyVars
    /\ UNCHANGED <<restartedEvents, tally>>

SpecLauncher == InitLauncher /\ [][CallLaunch]_vars

\* ---------------------------------------------------------------- claims
\* positions of the watchdog inside a restart, before the gate (main.rs 332-356)
RestartPcs == {"kill_stale", "try_wait", "kill", "wait", "launch", "store", "inc"}

\* the step in which the watchdog calls launch_backend_sidecar (main.rs 351)
WatchdogLaunchStep == wpc = "launch" /\ wpc' # "launch"

\* the child handles held anywhere: the slot, the main thread, the watchdog
Handles == {x \in {process, mChild, wChild} : x # 0}

\* C1: restart_count never decreases and never exceeds the session cap of 5,
\* whatever the probes and launches answer.
C1_RestartCountBounded ==
    /\ [](restart_count <= max_auto_restarts_per_session)
    /\ [][restart_count' >= restart_count]_vars

\* the fifth restart has been counted
C1_Witness == restart_count = max_auto_restarts_per_session

\* C2: once watchdog_stop is set, the watchdog makes no launch_backend_sidecar
\* call any more.
C2_NoLaunchAfterStop == [][watchdog_stop => ~WatchdogLaunchStep]_vars

\* C3: a shutdown that stores the stop flag before the watchdog has finished
\* its first loop iteration ends with the owned child killed exactly once and
\* reaped, no child being killed twice and no other child spawned.
C3_EarlyShutdownKillsOnce ==
    stopEarly =>
        /\ Len(procs) <= 1
        /\ \A c \in 1..Len(procs) : kills[c] <= 1
        /\ mpc = "done" =>
             \A c \in 1..Len(procs) : procs[c] = "reaped" /\ kills[c] = 1

\* the early shutdown is over, it owned a child, and the watchdog has stopped
C3_Witness ==
    /\ stopEarly
    /\ mpc = "done"
    /\ wpc = "stopped"
    /\ Len(procs) = 1
    /\ procs[1] = "reaped"
    /\ kills[1] = 1

\* C4: at the step in which the Exit handler returns, the watchdog holds no
\* child, every spawned child has been reaped and the slot is empty.
C4_NothingLeftAfterShutdown ==
    [][(mpc # "done" /\ mpc' = "done") =>
         (Unreaped' = {} /\ process' = 0 /\ wChild' = 0)]_vars

\* C5: at most one child handle is held and at most one spawned child is
\* unreaped (so at most one alive); when the watchdog calls the Launcher the
\* slot is empty and every earlier child has been reaped.
C5_AtMostOneChild ==
    /\ Cardinality(Handles) <= 1
    /\ Cardinality(Unreaped) <= 1
    /\ Cardinality(Alive) <= 1
    /\ Handles \subseteq Unreaped
    /\ wpc = "launch" => (process = 0 /\ Unreaped = {})

\* the watchdog replaced a child that was still running: it was killed and
\* reaped, and the replacement is the one alive and owned
C5_Witness ==
    /\ Len(procs) >= 2
    /\ kills[1] = 1
    /\ procs[1] = "reaped"
    /\ process = 2
    /\ procs[2] = "running"
    /\ mpc = "run"

\* C6: the tick whose failed probe takes consecutive_failures from 2 to 3
\* while restart_count is below the cap makes exactly one Launcher call, and
\* no tick makes more than one, whether the tick ends with the counter reset
\* or still at 3.
C6_OneRestartPerThresholdTick ==
    /\ tickLaunches <= 1
    /\ (/\ wpc = "sleep"
        /\ tickFail = max_failures_before_restart
        /\ rcLocal < max_auto_restarts_per_session) => tickLaunches = 1

\* the third failure's tick is over, one launch was made, still Degraded
C6_Witness ==
    /\ wpc = "sleep"
    /\ cfBefore = 2
    /\ ~healthy
    /\ tickLaunches = 1
    /\ consecutive_failures = 3
    /\ rcLocal < max_auto_restarts_per_session

\* C7: with restart_count at the cap of 5 the watchdog is never inside a
\* restart (no take, kill, wait or Launcher call), every failed probe ends the
\* tick at once, and every loop iteration without the stop flag still probes.
C7_ExhaustedNeverRestarts ==
    /\ [](restart_count = max_auto_restarts_per_session => wpc \notin RestartPcs)
    /\ [][restart_count = max_auto_restarts_per_session =>
            /\ ~WatchdogLaunchStep
            /\ kills' = kills \/ mpc = "stop_kill"
            /\ (wpc = "probe" /\ wpc' # "probe") => wpc' = "sleep"
            /\ (wpc = "check_stop" /\ wpc' # "check_stop" /\ ~watchdog_stop)
                   => wpc' = "probe"]_vars

\* exhausted: a probe failed beyond the threshold and the tick launched nothing
C7_Witness ==
    /\ restart_count = max_auto_restarts_per_session
    /\ wpc = "sleep"
    /\ ~healthy
    /\ tickFail > max_failures_before_restart
    /\ events = <<"unhealthy">>
    /\ tickLaunches = 0
    /\ firstTickDone

\* C8: the tick in which the restart launch returned a child and the gate
\* saw a healthy probe ends with consecutive_failures = 0 and restart_count
\* one above the value read (1 for the first restart); unless shutdown has been
\* requested the new child, the last one spawned, is the one in the slot.
C8_RestartRecovers ==
    (wpc = "sleep" /\ tickLaunches = 1 /\ "restarted" \in {events[i] : i \in 1..Len(events)}) =>
        /\ consecutive_failures = 0
        /\ restart_count = rcLocal + 1
        /\ ~watchdog_stop => (process = Len(procs) /\ process # 0 /\ procs[process] # "reaped")

\* three failures, first restart, gate healthy: Healthy, count 1, child owned
C8_Witness ==
    /\ wpc = "sleep"
    /\ events = <<"unhealthy", "restarted">>
    /\ cfBefore = 2
    /\ consecutive_failures = 0
    /\ restart_count = 1
    /\ ~watchdog_stop
    /\ process = Len(procs)
    /\ procs[process] = "running"

\* the step of a healthy probe that follows n failed ones, 0 < n < 3
HealthyAfterFewStep ==
    /\ wpc = "probe"
    /\ wpc' # "probe"
    /\ healthy'
    /\ consecutive_failures \in 1..(max_failures_before_restart - 1)

\* C9: a healthy probe after n failed ones, 0 < n < 3, sets the counter to 0,
\* ends the tick and changes neither restart_count nor the slot nor any child;
\* the watchdog is inside a restart only with consecutive_failures >= 3.
C9_HealthyResetsWithoutRestart ==
    /\ [](wpc \in RestartPcs => consecutive_failures >= max_failures_before_restart)
    /\ [][HealthyAfterFewStep =>
            /\ consecutive_failures' = 0
            /\ wpc' = "sleep"
            /\ tickLaunches' = 0
            /\ UNCHANGED <<restart_count, process, procs, kills, lock>>]_vars

\* a healthy probe came after one or two failures and the tick is over
C9_Witness ==
    /\ wpc = "sleep"
    /\ healthy
    /\ cfBefore \in 1..(max_failures_before_restart - 1)
    /\ consecutive_failures = 0
    /\ events = <<"healthy">>
    /\ tickLaunches = 0

\* C10 as stated: after a setup launch that found the address reachable the
\* slot stays empty and the shutdown takes no child to kill.
C10_ExternalNeverOwned ==
    externalAtStart => (process = 0 /\ mChild = 0)

\* C10 amended: after a setup launch that found the address reachable, setup
\* has spawned nothing, and as long as no watchdog restart has launched a
\* child the slot is empty, no child exists and the shutdown takes none.
C10_ExternalUntilRestart ==
    externalAtStart =>
        /\ wpc = "idle" => (Len(procs) = 0 /\ process = 0 /\ mChild = 0)
        /\ (restart_count = 0 /\ wpc \notin {"store", "inc"}) =>
              (Len(procs) = 0 /\ process = 0 /\ mChild = 0)

\* external backend at startup, no restart, shutdown done: nothing was killed
C10_Witness ==
    /\ externalAtStart
    /\ mpc = "done"
    /\ wpc = "stopped"
    /\ restart_count = 0
    /\ Len(procs) = 0
    /\ firstTickDone

\* positions of the Exit handler inside or after stop_backend_sidecar's take
ShutdownTookPcs == {"stop_kill", "stop_wait", "done"}

\* C11: whenever the Exit handler is about to lock the slot, has taken the
\* child, is killing or waiting for it, or has returned, watchdog_stop is
\* already true; the store is the handler's first step.
C11_StopSetBeforeTake ==
    /\ mpc \in ShutdownTookPcs \cup {"stop_lock"} => watchdog_stop
    /\ (mChild # 0 /\ mpc \in ShutdownTookPcs) => watchdog_stop

\* the handler holds the taken child under the lock, about to kill it
C11_Witness ==
    /\ mpc = "stop_kill"
    /\ mChild # 0
    /\ lock = "main"
    /\ procs[mChild] = "running"
    /\ watchdog_stop

\* the watchdog enters a sleep of the gate (main.rs 278)
GateSleepBegins == wpc # "gate_sleep" /\ wpc' = "gate_sleep"

\* the watchdog finishes a sleep it makes without reading the flag: the grace
\* sleep (main.rs 300) or a sleep of the gate (main.rs 278)
UncheckedSleepEnds ==
    \/ wpc = "grace" /\ wpc' # "grace"
    \/ wpc = "gate_sleep" /\ (wpc' # "gate_sleep" \/ wAttempt' # wAttempt)

\* C12: with watchdog_stop set the watchdog begins no sleep, and a sleep in
\* progress when the flag was set is not continued past a flag check: no
\* grace sleep and no gate sleep runs to its end with the flag set.
C12_StopBoundsEverySleep ==
    [][watchdog_stop => (~GateSleepBegins /\ ~UncheckedSleepEnds)]_vars

\* C14: watchdog_stop is false until the Exit handler's store, that store
\* makes it true, no other step writes it and it is never reset.
C14_StopMonotonic ==
    /\ [](mpc \notin ShutdownTookPcs \cup {"stop_lock"} => ~watchdog_stop)
    /\ [][watchdog_stop => watchdog_stop']_vars
    /\ [][watchdog_stop' # watchdog_stop => (mpc = "run" /\ mpc' = "stop_lock")]_vars
    /\ [][(mpc = "run" /\ mpc' = "stop_lock") => watchdog_stop']_vars

\* the flag is set and the watchdog meanwhile went through a restart and its
\* gate, none of which cleared it
C14_Witness ==
    /\ watchdog_stop
    /\ wpc = "gate_probe"
    /\ wAttempt > 1
    /\ restart_count >= 1

\* the events emitted so far in the current tick
Emitted == {events[i] : i \in 1..Len(events)}

\* the watchdog is past this tick's probe: in its restart, gate or sleep loop
AfterProbe == wpc \in RestartPcs \cup {"gate_probe", "gate_sleep", "gate_final", "sleep"}

\* C15 as stated: a failed probe that finds the counter already at the
\* threshold or above (the run emitted "unhealthy" before) emits none.
C15_UnhealthyOncePerRun ==
    (AfterProbe /\ ~healthy /\ cfBefore >= max_failures_before_restart) =>
        "unhealthy" \notin Emitted

\* C15 amended: "unhealthy" is emitted by every failed probe that leaves the
\* counter at 3 or more (first by the one that takes it to 3, again by each
\* later one of the run) and by no probe that leaves it below 3.
C15_UnhealthyEveryTickAtThreshold ==
    AfterProbe =>
        /\ (~healthy /\ tickFail >= max_failures_before_restart)
              => (Len(events) >= 1 /\ events[1] = "unhealthy")
        /\ (healthy \/ tickFail < max_failures_before_restart)
              => "unhealthy" \notin Emitted
        /\ \A i \in 2..Len(events) : events[i] # "unhealthy"

\* the fourth failed probe in a row emitted "unhealthy" again
C15_Witness ==
    /\ wpc = "sleep"
    /\ ~healthy
    /\ cfBefore = max_failures_before_restart
    /\ consecutive_failures = max_failures_before_restart + 1
    /\ events = <<"unhealthy">>

\* the step of a healthy watchdog probe
HealthyProbeStep == wpc = "probe" /\ wpc' # "probe" /\ healthy'

\* C16: a healthy probe with the counter above 0 sets it to 0 and emits
\* exactly one "healthy"; with the counter at 0 it emits nothing and changes
\* neither the counter nor any shared state; either way the tick ends.
C16_HealthyProbeEffect ==
    [][HealthyProbeStep =>
         /\ consecutive_failures' = 0
         /\ wpc' = "sleep"
         /\ events' = IF consecutive_failures > 0 THEN <<"healthy">> ELSE <<>>
         /\ UNCHANGED <<process, watchdog_stop, restart_count, lock, procs, kills>>]_vars

\* a healthy probe found the counter at 3 or more and emitted "healthy" once
C16_Witness ==
    /\ wpc = "sleep"
    /\ healthy
    /\ cfBefore >= max_failures_before_restart
    /\ consecutive_failures = 0
    /\ events = <<"healthy">>

\* the tick's failed probe reached the threshold with restart_count at the cap
ExhaustedTick ==
    /\ wpc = "sleep"
    /\ ~healthy
    /\ tickFail >= max_failures_before_restart
    /\ restart_count >= max_auto_restarts_per_session
    /\ tickLaunches = 0

\* C17: a tick that finds the restart cap exhausted emits something other
\* than the events of a transient failure.
C17_ExhaustionHasOwnEvent ==
    ExhaustedTick => events # <<"unhealthy">>

\* the step in which launch_backend_sidecar of a restart returned None
RelaunchFailedStep == wpc = "launch" /\ wpc' = "sleep"

\* the step in which the gate of a restart returned false
GateFailedStep == wpc = "gate_final" /\ wpc' = "sleep" /\ events' = events

\* C20: a restart whose Launcher call returns no child, or whose gate returns
\* false, leaves consecutive_failures as the failed probe left it, makes no
\* second Launcher call in the tick and goes to the sleep loop; the failed
\* launch leaves restart_count at the value read, the failed gate one above.
C20_FailedRestartKeepsDegraded ==
    /\ [](wpc = "launch" => (tickLaunches = 0 /\ restart_count = rcLocal))
    /\ [](wpc \in {"gate_probe", "gate_sleep", "gate_final"} =>
             (tickLaunches = 1 /\ restart_count = rcLocal + 1))
    /\ [][RelaunchFailedStep =>
            /\ consecutive_failures' = consecutive_failures
            /\ consecutive_failures' = cfBefore + 1
            /\ restart_count' = restart_count
            /\ tickLaunches' = 1
            /\ sleepI' = 0
            /\ UNCHANGED <<events, process, procs, kills>>]_vars
    /\ [][GateFailedStep =>
            /\ consecutive_failures' = consecutive_failures
            /\ consecutive_failures' = cfBefore + 1
            /\ restart_count' = restart_count
            /\ tickLaunches' = 1
            /\ sleepI' = 0
            /\ UNCHANGED <<process, procs, kills>>]_vars
    /\ [][wpc = "sleep" => (wpc' \in {"sleep", "check_stop"} /\ tickLaunches' = tickLaunches)]_vars

\* a restart's gate failed: the tick is over, still Degraded, one child more
C20_Witness ==
    /\ wpc = "sleep"
    /\ tickLaunches = 1
    /\ events = <<"unhealthy">>
    /\ consecutive_failures = cfBefore + 1
    /\ restart_count = rcLocal + 1
    /\ sleepI > 0


\* ---------------------------------------------------------------- C13
\* C13: the shutdown is idempotent: a run of stop_backend_sidecar that starts
\* with no child owned, and every run after the first one, takes nothing from
\* the slot and goes straight to its end without a kill; the slot stays empty,
\* watchdog_stop stays true, and no process is killed or reaped by it.
ShutdownRunTakes == mpc = "stop_lock" /\ mpc' # "stop_lock"
C13_ShutdownIdempotent ==
    [][(ShutdownRunTakes /\ (process = 0 \/ shutdownRuns >= 1)) =>
         /\ mpc' = "done"
         /\ process' = 0
         /\ watchdog_stop'
         /\ UNCHANGED <<procs, kills>>]_vars

\* ---------------------------------------------------------------- C18
\* C18: wait_for_backend_ready makes at most max_attempts probes in the loop,
\* returns true at the first healthy one without probing further, otherwise
\* makes exactly one final probe and returns its answer; so it returns true
\* exactly when one of the probes it made was healthy, and it returns.
C18_GateContract ==
    (mpc = "call_gate" /\ hOut.called) =>
        LET m == hIn.max_attempts
            a == hIn.answers
            n == hOut.probes
        IN /\ n \in 1..(m + 1)
           /\ \A i \in 1..(n - 1) : ~a[i]
           /\ n <= m => (a[n] /\ hOut.result)
           /\ n = m + 1 => hOut.result = a[m + 1]
           /\ hOut.result = (\E i \in 1..n : a[i])

C18_Witness ==
    /\ mpc = "call_gate" /\ hOut.called
    /\ hIn.max_attempts = 3
    /\ hOut.probes = 4
    /\ hOut.result

\* ---------------------------------------------------------------- C19
RangeOf(t) == {t[i] : i \in 1..Len(t)}
CandidateRank(c) == CASE c = "binary" -> 1 [] c = "python3" -> 2 [] c = "python" -> 3
SpawnOk(env, c) ==
    CASE c = "binary" -> env.binOk [] c = "python3" -> env.py3Ok [] c = "python" -> env.pyOk

\* C19: when the address is not reachable the launcher tries the packaged
\* binary, then the script with python3, then the script with python, in that
\* order, each only if it is there and every earlier try failed; it returns the
\* child of the first spawn that succeeds and spawns at most one process.
C19_LauncherOrder ==
    (mpc = "call_launch" /\ hOut.called /\ ~hIn.env.tcp) =>
        LET env == hIn.env
            r == hOut.r
            t == hOut.r.tried
        IN /\ \A i, j \in 1..Len(t) : i < j => CandidateRank(t[i]) < CandidateRank(t[j])
           /\ \A i \in 1..(Len(t) - 1) : ~SpawnOk(env, t[i])
           /\ ("binary" \in RangeOf(t)) = env.bin
           /\ ("python3" \in RangeOf(t)) = (env.script /\ ~(env.bin /\ env.binOk))
           /\ ("python" \in RangeOf(t)) = (("python3" \in RangeOf(t)) /\ ~env.py3Ok)
           /\ r.child => (Len(t) >= 1 /\ r.via = t[Len(t)] /\ SpawnOk(env, r.via))
           /\ ~r.child => \A i \in 1..Len(t) : ~SpawnOk(env, t[i])
           /\ Len(procs) = IF r.child THEN 1 ELSE 0

C19_Witness ==
    /\ mpc = "call_launch" /\ hOut.called /\ ~hIn.env.tcp
    /\ hOut.r.tried = <<"binary", "python3", "python">>
    /\ hOut.r.child /\ hOut.r.via = "python"
    /\ procs = <<"running">>


\* ---------------------------------------------------------------- C21
\* C21: once watchdog_stop is set the watchdog thread eventually leaves its
\* loop (under fair scheduling), and after it has left the loop it makes no
\* probe, kill, launch or event emission: none of its variables changes, no
\* process is spawned, and the only kills are those of stop_backend_sidecar.
C21_StopEventuallyStops ==
    /\ watchdog_stop ~> (wpc = "stopped")
    /\ [][wpc = "stopped" =>
            /\ UNCHANGED wdVars
            /\ Len(procs') = Len(procs)
            /\ (kills' # kills => mpc = "stop_kill")]_vars

\* the watchdog has left its loop in a session that saw a restart, shutdown done
C21_Witness == wpc = "stopped" /\ watchdog_stop /\ restart_count >= 1 /\ mpc = "done"


\* ---------------------------------------------------------------- C22
\* C22: over any sequence of probe and launch outcomes, also when every launch
\* fails, the watchdog invokes the launcher at most 5 times in a session.
C22_LauncherCallsBounded == launcherCalls <= max_auto_restarts_per_session

\* C22, amended: the watchdog's launches that spawn a child are at most 5 in a
\* session; every launcher call is made with restart_count below 5, and a call
\* that returns no child leaves restart_count as it was and ends the tick, so
\* such calls do not use up the cap and may be made more than 5 times.
C22_SpawningRestartsBounded ==
    /\ [](wdSpawned <= max_auto_restarts_per_session)
    /\ [](wdSpawned <= launcherCalls)
    /\ [][WatchdogLaunchStep => UnderCap(restart_count)]_vars
    /\ [][(WatchdogLaunchStep /\ wdSpawned' = wdSpawned) =>
            (restart_count' = restart_count /\ wpc' = "sleep")]_vars

\* five restarts spawned a child and at least one more launcher call spawned none
C22_Witness ==
    /\ wdSpawned = max_auto_restarts_per_session
    /\ restart_count = max_auto_restarts_per_session
    /\ launcherCalls > max_auto_restarts_per_session

\* ---------------------------------------------------------------- C23
\* between the spawn of a restart (351) and its fetch_add (356)
SpawnedNotCounted == wpc \in {"store", "inc"}

\* C23: in every reachable state restart_count equals the number of children
\* spawned by the watchdog.
C23_CountEqualsSpawned == restart_count = wdSpawned

\* C23, amended: restart_count changes only in the watchdog's fetch_add, by
\* exactly 1, right after a restart launch returned a child and before the
\* gate starts; it is 0 until the watchdog runs (the setup launch does not
\* count), it is never reset, and it equals the number of children spawned by
\* the watchdog except between a restart's spawn and its fetch_add, where it is
\* one less.
C23_CountFollowsSpawn ==
    /\ [](wdSpawned = restart_count + (IF SpawnedNotCounted THEN 1 ELSE 0))
    /\ [](wpc \in {"idle", "grace"} => restart_count = 0)
    /\ [][restart_count' # restart_count =>
            /\ wpc = "inc" /\ wpc' = "gate_probe"
            /\ restart_count' = restart_count + 1]_vars

\* the setup child and two restarted children exist, both restarts are counted
C23_Witness ==
    /\ wpc = "gate_probe"
    /\ restart_count = 2 /\ wdSpawned = 2
    /\ Len(procs) = 3


\* ---------------------------------------------------------------- C24
\* positions inside the critical sections that take, check, kill and wait
WatchdogCritical == {"try_wait", "kill", "wait"}
ShutdownCritical == {"stop_kill", "stop_wait"}

\* C24: take, exit check, kill and wait run inside one critical section of the
\* process mutex in the watchdog and in stop_backend_sidecar: a thread holds a
\* taken child exactly while it holds the mutex and has reaped it when it lets
\* go; so the two are never both inside, no child gets kill() from both, and a
\* handle is stored into the slot only when the slot is empty.
C24_TakeKillOneSection ==
    /\ []((wChild # 0 /\ wpc \in WatchdogCritical) <=> lock = "wd")
    /\ [](mpc \in ShutdownCritical <=> lock = "main")
    /\ [](mpc \in ShutdownCritical => mChild # 0)
    /\ [][(lock = "wd" /\ lock' # "wd") => (procs'[wChild] = "reaped" /\ wChild' = 0)]_vars
    /\ [][(lock = "main" /\ lock' # "main") => (procs'[mChild] = "reaped" /\ mChild' = 0)]_vars
    /\ [](\A c \in 1..Len(kills) : kills[c] <= 1)
    /\ [][(process' # process /\ process' # 0) => process = 0]_vars

\* the watchdog has killed the child it took and still holds the mutex while
\* stop_backend_sidecar waits for it
C24_Witness ==
    /\ wpc = "wait" /\ lock = "wd" /\ kills[wChild] = 1
    /\ mpc = "stop_lock" /\ process = 0

\* ---------------------------------------------------------------- C25
\* C25: the launcher reports "not found" only when neither the binary nor the
\* script was found; when a spawn was attempted and every attempt failed it
\* reports a spawn error, also when the binary's spawn failed and there is no
\* script.
C25_ReportsAsNamed ==
    (mpc = "call_launch" /\ hOut.called /\ ~hIn.env.tcp /\ ~hOut.r.child) =>
        /\ hOut.r.report = "script_not_found" <=> hOut.r.tried = <<>>
        /\ hOut.r.report = "spawn_failed" <=> hOut.r.tried # <<>>

\* ---------------------------------------------------------------- C26
\* the step of check_backend_health
QueryStep == hOut' # hOut

\* C26: check_backend_health can run in every state, whoever holds the process
\* mutex; it changes nothing of the supervisor's state, and the count it
\* returns is the value restart_count has at the load, between 0 and the cap.
C26_QueryNeverBlocksNorWrites ==
    /\ [](ENABLED CheckBackendHealth)
    /\ [][QueryStep =>
            /\ hOut'.restart_count = restart_count
            /\ UNCHANGED <<sharedVars, mainVars, wdVars>>]_vars
    /\ [](hOut.called =>
            /\ hOut.restart_count \in 0..max_auto_restarts_per_session
            /\ hOut.restart_count <= restart_count)

\* a query answered 2 while the watchdog held the mutex in its third restart
C26_Witness ==
    /\ hOut.called /\ hOut.restart_count = 2 /\ restart_count = 2
    /\ lock = "wd" /\ wpc = "kill"

\* ---------------------------------------------------------------- C27
\* C27: "restarted" is emitted only by a gate probe that answered healthy, in
\* a tick that emitted "unhealthy" first and whose single launch returned a
\* child that was counted; a gate that fails emits nothing; the "restarted"
\* events never outnumber restart_count.
RestartedEmitStep == "restarted" \in {events'[i] : i \in 1..Len(events')} /\ events' # events
C27_RestartedOnlyAfterGate ==
    /\ [][RestartedEmitStep =>
            /\ wpc \in {"gate_probe", "gate_final"}
            /\ events = <<"unhealthy">> /\ events' = <<"unhealthy", "restarted">>
            /\ tickLaunches = 1
            /\ restart_count = rcLocal + 1
            /\ consecutive_failures' = 0
            /\ wpc' = "sleep"]_vars
    /\ [][(wpc = "gate_final" /\ consecutive_failures' # 0) =>
            (events' = events /\ restartedEvents' = restartedEvents)]_vars
    /\ []("restarted" \in Emitted =>
            /\ wpc \in {"sleep", "check_stop"}
            /\ events = <<"unhealthy", "restarted">>
            /\ tickLaunches = 1)
    /\ [](restartedEvents <= restart_count)

\* two restarts so far: the first one's gate failed, the second one's succeeded
C27_Witness ==
    /\ restart_count = 2 /\ restartedEvents = 1
    /\ events = <<"unhealthy", "restarted">>
    /\ wpc = "sleep"


\* ---------------------------------------------------------------- C28
\* positions of the watchdog in the launcher call, the gate, a probe or a sleep
WatchdogUnlocked ==
    {"grace", "check_stop", "probe", "launch", "inc",
     "gate_probe", "gate_sleep", "gate_final", "sleep", "stopped"}

\* C28: the watchdog holds the process mutex only between its take and the end
\* of kill and wait (and for the store), never in the launcher call, the gate,
\* a probe or a sleep; so a thread that waits for the mutex always has a holder
\* that can go on, stop_backend_sidecar can take the mutex at once while the
\* watchdog launches or runs the gate, and once entered it runs to its end.
C28_LockOnlyAroundChild ==
    /\ [](lock = "wd" => wpc \in WatchdogCritical)
    /\ [](wpc \in WatchdogUnlocked => lock # "wd")
    /\ [](mpc = "stop_lock" => (ENABLED StopLockTake \/ ENABLED WatchdogNext))
    /\ [](wpc \in {"kill_stale", "store"} => (ENABLED WatchdogNext \/ ENABLED ShutdownNext))
    /\ []((mpc = "stop_lock" /\ wpc \in WatchdogUnlocked) => ENABLED StopLockTake)
    /\ (mpc = "stop_lock") ~> (mpc = "done")

\* stop_backend_sidecar holds the mutex and kills while the watchdog is inside a gate run
C28_Witness ==
    /\ mpc = "stop_kill" /\ lock = "main"
    /\ wpc = "gate_sleep" /\ wAttempt >= 2

====
